---- MODULE Spec2Model ----
(***************************************************************************)
(* Model of carrier-io/board_summary (lambda_function.py): the ticket      *)
(* classifier categorize_tickets, the completion reconciler                *)
(* get_recent_done_tickets, CarrierClient.fetch_audit_logs,                *)
(* EmailNotifier.send_email and the entry points lambda_handler and        *)
(* handler_local.                                                          *)
(*                                                                         *)
(* Python objects are modelled by reference: `tickets` is the list of      *)
(* ticket dicts the API returned, and every other list of tickets          *)
(* (buckets, risks, recent_done_tickets) holds positions in that list, so  *)
(* that a mutation of a ticket dict is seen through every list holding it. *)
(* Strings that are compared are sequences of character codes.             *)
(***************************************************************************)
EXTENDS Integers, Sequences, FiniteSets, TLC

\* ------------------------------------------------------------------ bounds
MaxTickets == 2
MaxLogs == 2

\* ------------------------------------------------------------------ values
Absent == "<absent>"      \* a key (of a string value) the dict does not have
\* An optional non-string field (start_date, completion_date) is the set of
\* its values: empty when the dict has no such key.
NoDate == {}

\* the keys of tickets_summary, in the order the dict literal lists them
StatusKeys == <<"open", "blocked", "in_progress", "in_review", "done">>

StatusKeySet == {StatusKeys[k] : k \in 1..Len(StatusKeys)}

RISK == "Risk"
DONE == "DONE"

\* ---------------------------------------------------------- str comparison
\* Python's < on str: lexicographic on the characters, a proper prefix first.
RECURSIVE StrLess(_, _)
StrLess(a, b) ==
  IF b = <<>> THEN FALSE
  ELSE IF a = <<>> THEN TRUE
  ELSE IF Head(a) < Head(b) THEN TRUE
  ELSE IF Head(a) > Head(b) THEN FALSE
  ELSE StrLess(Tail(a), Tail(b))

\* x.get("start_date", ""): the value, or the empty string when the key is
\* missing
StartDateKey(t) ==
  IF t.start_date = {} THEN <<>> ELSE CHOOSE d \in t.start_date : TRUE

\* ------------------------------------------------------------------ sorted
\* sorted(list, key=...) is stable: an element goes after every element
\* already placed whose key is not greater than its own.
\* a sort that is not stable: an element goes before the elements with an
\* equal key
RECURSIVE InsertBeforeEqual(_, _, _)
InsertBeforeEqual(tks, sortedRefs, r) ==
  IF sortedRefs = <<>> THEN <<r>>
  ELSE IF ~StrLess(StartDateKey(tks[Head(sortedRefs)]), StartDateKey(tks[r]))
       THEN <<r>> \o sortedRefs
       ELSE <<Head(sortedRefs)>> \o InsertBeforeEqual(tks, Tail(sortedRefs), r)

RECURSIVE InsertByKey(_, _, _)
InsertByKey(tks, sortedRefs, r) ==
  IF sortedRefs = <<>> THEN <<r>>
  ELSE IF StrLess(StartDateKey(tks[r]), StartDateKey(tks[Head(sortedRefs)]))
       THEN <<r>> \o sortedRefs
       ELSE <<Head(sortedRefs)>> \o InsertByKey(tks, Tail(sortedRefs), r)

RECURSIVE SortedByStartDate(_, _)
SortedByStartDate(tks, refs) ==
  IF refs = <<>> THEN <<>>
  ELSE InsertByKey(tks, SortedByStartDate(tks, SubSeq(refs, 1, Len(refs) - 1)),
                   refs[Len(refs)])

\* -------------------------------------------------------- categorize_tickets
\* The loop of lines 137-143 over tickets[from..]: acc is (tickets_summary,
\* risks) so far. A ticket without "type", or a non-Risk ticket without
\* "status", raises KeyError.
\* the loop without the else: a Risk ticket is also filed under its status
RECURSIVE CategorizeLoopNoElse(_, _, _)
CategorizeLoopNoElse(tks, from, acc) ==
  IF from > Len(tks) THEN acc
  ELSE LET t == tks[from]
           filed == IF t.type = RISK
                    THEN [acc EXCEPT !.risks = Append(@, from)] ELSE acc
       IN
    IF t.status \in StatusKeySet
      THEN CategorizeLoopNoElse(tks, from + 1,
             [filed EXCEPT !.summary[t.status] = Append(@, from)])
    ELSE CategorizeLoopNoElse(tks, from + 1, filed)

\* the loop filing a ticket of an unrecognized status under "open"
RECURSIVE CategorizeLoopDefaultOpen(_, _, _)
CategorizeLoopDefaultOpen(tks, from, acc) ==
  IF from > Len(tks) THEN acc
  ELSE LET t == tks[from] IN
    IF t.type = RISK
      THEN CategorizeLoopDefaultOpen(tks, from + 1,
             [acc EXCEPT !.risks = Append(@, from)])
    ELSE IF t.status \in StatusKeySet
      THEN CategorizeLoopDefaultOpen(tks, from + 1,
             [acc EXCEPT !.summary[t.status] = Append(@, from)])
    ELSE CategorizeLoopDefaultOpen(tks, from + 1,
             [acc EXCEPT !.summary["open"] = Append(@, from)])

RECURSIVE CategorizeLoop(_, _, _)
CategorizeLoop(tks, from, acc) ==
  IF from > Len(tks) THEN acc
  ELSE LET t == tks[from] IN
    IF t.type = Absent THEN [acc EXCEPT !.error = "KeyError"]
    ELSE IF t.type = RISK
      THEN CategorizeLoop(tks, from + 1,
             [acc EXCEPT !.risks = Append(@, from)])
    ELSE IF t.status = Absent THEN [acc EXCEPT !.error = "KeyError"]
    ELSE IF t.status \in StatusKeySet
      THEN CategorizeLoop(tks, from + 1,
             [acc EXCEPT !.summary[t.status] = Append(@, from)])
    ELSE CategorizeLoop(tks, from + 1, acc)

categorize_tickets(tks) ==
  LET looped == CategorizeLoop(tks, 1,
                  [summary |-> [s \in StatusKeySet |-> <<>>],
                   risks |-> <<>>, error |-> "none"])
  IN [looped EXCEPT
        !.summary = [s \in StatusKeySet |->
                       SortedByStartDate(tks, looped.summary[s])]]

\* ------------------------------------------------------------- timestamps
\* A timestamp string is [date, sep, time, frac]: the date and the time of
\* day as numbers, the separator between them, and the digits after the
\* point (<<>> when the string has no fractional part).
\* datetime.strptime(s, "%Y-%m-%dT%H:%M:%S.%f") accepts a string only with a
\* "T" separator and a fractional part; anything else raises ValueError.
Parses(s) == s.sep = "T" /\ s.frac # <<>>

\* the datetime strptime returns
strptime(s) == [date |-> s.date, time |-> s.time, micro |-> s.frac]

\* datetime.strftime(d, "%Y-%m-%d %H:%M:%S"): a space separator, and the
\* fraction of the second is dropped
strftime(d) == [date |-> d.date, sep |-> " ", time |-> d.time, frac |-> <<>>]

\* datetime >= datetime
DatetimeGE(a, b) ==
  \/ a.date > b.date
  \/ a.date = b.date /\ a.time > b.time
  \/ a.date = b.date /\ a.time = b.time /\ ~StrLess(a.micro, b.micro)

\* --------------------------------------------------- get_recent_done_tickets
\* log["changes"] is a dict from field name to its delta, modelled as the set
\* of <<field, new_value>> pairs; the empty dict is falsy.
\* log["changes"].get("status", {}).get("new_value")
StatusNewValue(changes) ==
  IF \E p \in changes : p[1] = "status"
  THEN (CHOOSE p \in changes : p[1] = "status")[2]
  ELSE "None"

\* the condition without its test of the action
IsDoneChange(log) ==
  /\ log.changes # {}
  /\ StatusNewValue(log.changes) = DONE

\* the condition of line 155
IsDoneUpdate(log) ==
  /\ log.action = "update"
  /\ log.changes # {}
  /\ StatusNewValue(log.changes) = DONE

\* next((t for t in tickets if t["id"] == ticket_id), None): the position of
\* the first ticket with that id, 0 for None
FindTicket(tks, ticket_id) ==
  IF \E r \in 1..Len(tks) : tks[r].id = ticket_id
  THEN CHOOSE r \in 1..Len(tks) :
         /\ tks[r].id = ticket_id
         /\ \A q \in 1..(r - 1) : tks[q].id # ticket_id
  ELSE 0

\* an annotation that keeps the date the ticket already has
SetCompletionDateOnce(tks, r, d) ==
  IF tks[r].completion_date = {} THEN [tks EXCEPT ![r].completion_date = {d}]
  ELSE tks

\* an annotation made on a copy of the ticket dict
SetCompletionDateOnCopy(tks, r, d) == tks

\* ticket["completion_date"] = completion_date, on the ticket dict itself
SetCompletionDate(tks, r, d) == [tks EXCEPT ![r].completion_date = {d}]

\* The loop of lines 154-163 over logs[from..]: acc is [tickets, recent,
\* error]. strptime raising ValueError ends the call; the tickets annotated
\* before it stay annotated.
RECURSIVE ReconcileLoop(_, _, _)
ReconcileLoop(logs, from, acc) ==
  IF from > Len(logs) THEN acc
  ELSE LET log == logs[from]
           r == FindTicket(acc.tickets, log.auditable_id)
       IN
    IF IsDoneUpdate(log) /\ r # 0
    THEN IF Parses(log.created_at)
         THEN ReconcileLoop(logs, from + 1,
                [acc EXCEPT
                   !.tickets = SetCompletionDate(@, r,
                                 strftime(strptime(log.created_at))),
                   !.recent = Append(@, r)])
         ELSE [acc EXCEPT !.error = "ValueError"]
    ELSE ReconcileLoop(logs, from + 1, acc)

get_recent_done_tickets(logs, tks) ==
  ReconcileLoop(logs, 1, [tickets |-> tks, recent |-> <<>>, error |-> "none"])

\* ------------------------------------------------------------------- state
VARIABLES
  entry,                \* the function that was called
  pc,                   \* where it is
  tickets,              \* the ticket dicts, in fetch order
  tickets_summary,      \* status key -> positions in tickets
  risks,                \* positions in tickets
  audit_logs,           \* the audit-log entries handed to the reconciler
  recent_done_tickets,  \* positions in tickets
  error,                \* the exception that left the function, or "none"
  calls,                \* the external calls issued so far, in order
  recent_logs,          \* fetch_audit_logs: its local recent_logs
  auditable_at,         \* fetch_audit_logs: the position of its loop in
                        \* auditable_ids
  rendered,             \* what template.render read
  response              \* what the entry point returned

vars == <<entry, pc, tickets, tickets_summary, risks, audit_logs,
          recent_done_tickets, error, calls, recent_logs, auditable_at,
          rendered, response>>

EmptySummary == [s \in StatusKeySet |-> <<>>]
NoResponse == [statusCode |-> 0, body |-> "<running>"]
NothingRendered == [done |-> FALSE, tickets_summary |-> EmptySummary,
                    risks |-> <<>>, recent_done_tickets |-> <<>>,
                    engagement |-> Absent]

\* sequences over S of length at most n
SeqsUpTo(S, n) == UNION {[1..m -> S] : m \in 0..n}

\* ------------------------------------------------------------ input domains
TypeValues == {RISK, "Activity"}
\* three of the recognized keys and a status that is none of them
StatusValues == {"open", "in_progress", "done", "cancelled"}
StartDateValues == {{}, {<<>>}, {<<1>>}, {<<1, 1>>}, {<<2>>}}

\* a ticket as the API returns it, before its id is known
TicketShapes ==
  [type : TypeValues, status : StatusValues, start_date : StartDateValues,
   engagement : {"eng"}]

\* the ticket list made of the given shapes: ids are unique, and
\* completion_date is not in the source data
WithIds(shapes) ==
  [r \in 1..Len(shapes) |->
     [id |-> r, type |-> shapes[r].type, status |-> shapes[r].status,
      start_date |-> shapes[r].start_date,
      engagement |-> shapes[r].engagement, completion_date |-> NoDate]]

T1 == [date |-> 2, sep |-> "T", time |-> 1, frac |-> <<0>>]
T2 == [date |-> 2, sep |-> "T", time |-> 2, frac |-> <<5>>]
\* the output format of strftime, which strptime's format does not accept
Malformed == [date |-> 2, sep |-> " ", time |-> 1, frac |-> <<>>]

ChangesValues ==
  {{}, {<<"status", DONE>>}, {<<"status", "IN_PROGRESS">>},
   {<<"title", "renamed">>}}

\* ids 1..MaxTickets may be ids of tickets; MaxTickets + 1 never is
LogIds == 1..(MaxTickets + 1)

LogEntries ==
  [auditable_id : LogIds, action : {"update"}, changes : ChangesValues,
   created_at : {T1, T2, Malformed}]
  \cup
  [auditable_id : LogIds, action : {"create"}, changes : {{<<"status", DONE>>}},
   created_at : {T1}]

\* --------------------------------------------- calling categorize_tickets
InitClassify ==
  /\ entry = "categorize_tickets"
  /\ pc = "call"
  /\ \E n \in 0..MaxTickets : \E sh \in [1..n -> TicketShapes] :
       tickets = WithIds(sh)
  /\ tickets_summary = EmptySummary
  /\ risks = <<>>
  /\ audit_logs = <<>>
  /\ recent_done_tickets = <<>>
  /\ error = "none"
  /\ calls = <<>>
  /\ recent_logs = <<>>
  /\ auditable_at = 1
  /\ rendered = NothingRendered
  /\ response = NoResponse

CallCategorize ==
  /\ entry = "categorize_tickets"
  /\ pc = "call"
  /\ LET res == categorize_tickets(tickets) IN
       /\ tickets_summary' = res.summary
       /\ risks' = res.risks
       /\ error' = res.error
       /\ pc' = IF res.error = "none" THEN "returned" ELSE "raised"
  /\ UNCHANGED <<entry, tickets, audit_logs, recent_done_tickets, calls,
                 recent_logs, auditable_at, rendered, response>>

SpecClassify == InitClassify /\ [][CallCategorize]_vars

\* ----------------------------------------- calling get_recent_done_tickets
InitReconcile ==
  /\ entry = "get_recent_done_tickets"
  /\ pc = "call"
  /\ tickets \in {WithIds([r \in 1..n |->
                     [type |-> "Activity", status |-> "done",
                      start_date |-> {}, engagement |-> "eng"]]) :
                  n \in 0..MaxTickets}
  /\ tickets_summary = EmptySummary
  /\ risks = <<>>
  /\ \E n \in 0..MaxLogs : audit_logs \in [1..n -> LogEntries]
  /\ recent_done_tickets = <<>>
  /\ error = "none"
  /\ calls = <<>>
  /\ recent_logs = <<>>
  /\ auditable_at = 1
  /\ rendered = NothingRendered
  /\ response = NoResponse

CallReconcile ==
  /\ entry = "get_recent_done_tickets"
  /\ pc = "call"
  /\ LET res == get_recent_done_tickets(audit_logs, tickets) IN
       /\ tickets' = res.tickets
       /\ recent_done_tickets' = IF res.error = "none" THEN res.recent ELSE <<>>
       /\ error' = res.error
       /\ pc' = IF res.error = "none" THEN "returned" ELSE "raised"
  /\ UNCHANGED <<entry, tickets_summary, risks, audit_logs, calls,
                 recent_logs, auditable_at, rendered, response>>

SpecReconcile == InitReconcile /\ [][CallReconcile]_vars

\* -------------------------------------------------------- the entry points
Days == 5

\* datetime.now() when fetch_audit_logs is called
NowAtFetch == [date |-> Days + 2, time |-> 1, micro |-> <<0>>]

\* end_date - timedelta(days=days)
WindowStart(now, days) == [now EXCEPT !.date = @ - days]

\* a timestamp before the window
Old == [date |-> 1, sep |-> "T", time |-> 2, frac |-> <<5>>]

\* event.get(key) / event.get(key, default)
Get(event, key, default) == IF event[key] = Absent THEN default ELSE event[key]

Events ==
  [base_url : {Absent, "", "https://api.example.com"},
   token : {Absent, "", "token"},
   recipients : {Absent, "recipient@example.com"}]

\* the defaults of handler_local; lambda_handler has none (None)
DefaultOf(fn, key) ==
  IF fn = "lambda_handler" THEN Absent
  ELSE CASE key = "base_url" -> "https://api.example.com"
         [] key = "token" -> "your_token_here"
         [] key = "recipients" -> "recipient@example.com"

\* Lines 169-180 (237-248): the exception reading the event and constructing
\* CarrierClient raises, or "none". None.split raises AttributeError; an empty
\* or missing base_url or token raises ValueError.
ConfigError(fn, event) ==
  IF Get(event, "recipients", DefaultOf(fn, "recipients")) = Absent
    THEN "AttributeError"
  ELSE IF Get(event, "base_url", DefaultOf(fn, "base_url")) \in {Absent, ""}
    THEN "ValueError"
  ELSE IF Get(event, "token", DefaultOf(fn, "token")) \in {Absent, ""}
    THEN "ValueError"
  ELSE "none"

\* what the tracking API may return for the board: well-formed tickets, a
\* ticket without "type", a ticket without "engagement"
PipelineShapes ==
  [type : TypeValues, status : {"done", "cancelled"},
   start_date : {{}}, engagement : {"eng"}]
  \cup
  [type : {Absent}, status : {"done"}, start_date : {{}}, engagement : {"eng"}]
  \cup
  [type : {"Activity"}, status : {"done"}, start_date : {{}},
   engagement : {Absent}]

\* what the tracking API may return as the audit log of one ticket: done
\* transitions of that ticket, in and before the window or with a timestamp
\* that does not parse, and one of a ticket that is not on the board
PipelineLogs(id) ==
  [auditable_id : {id}, action : {"update"}, changes : {{<<"status", DONE>>}},
   created_at : {T1, T2, Old, Malformed}]
  \cup
  [auditable_id : {MaxTickets + 1}, action : {"update"},
   changes : {{<<"status", DONE>>}}, created_at : {T2}]

Call(name, id, outcome) == [call |-> name, id |-> id, outcome |-> outcome]

Init ==
  /\ entry \in {"lambda_handler", "handler_local"}
  /\ pc = "start"
  /\ tickets = <<>>
  /\ tickets_summary = EmptySummary
  /\ risks = <<>>
  /\ audit_logs = <<>>
  /\ recent_done_tickets = <<>>
  /\ error = "none"
  /\ calls = <<>>
  /\ recent_logs = <<>>
  /\ auditable_at = 1
  /\ rendered = NothingRendered
  /\ response = NoResponse

InHandler == entry \in {"lambda_handler", "handler_local"}

\* a handler that records the exception and lets the step run again
FailAndRetry(e) ==
  /\ error' = e
  /\ UNCHANGED <<pc, response>>

\* except Exception as e: return {'statusCode': 500, 'body': json.dumps(str(e))}
Fail(e) ==
  /\ error' = e
  /\ pc' = "done"
  /\ response' = [statusCode |-> 500, body |-> e]

\* Lines 169-180: read the event, construct the client.
Configure ==
  /\ InHandler
  /\ pc = "start"
  /\ \E event \in Events :
       LET e == ConfigError(entry, event) IN
         IF e = "none"
         THEN /\ pc' = "fetch_tickets"
              /\ UNCHANGED <<error, response>>
         ELSE Fail(e)
  /\ UNCHANGED <<entry, tickets, tickets_summary, risks, audit_logs,
                 recent_done_tickets, calls, recent_logs, auditable_at,
                 rendered>>

\* Lines 181-185: fetch_tickets (one request), then categorize_tickets.
FetchTickets ==
  /\ InHandler
  /\ pc = "fetch_tickets"
  /\ \E ok \in BOOLEAN :
       IF ok
       THEN \E n \in 0..MaxTickets : \E sh \in [1..n -> PipelineShapes] :
              LET tks == WithIds(sh)
                  res == categorize_tickets(tks)
              IN /\ calls' = Append(calls, Call("fetch_tickets", 0, "ok"))
                 /\ tickets' = tks
                 /\ IF res.error = "none"
                    THEN /\ tickets_summary' = res.summary
                         /\ risks' = res.risks
                         /\ pc' = "fetch_audit_logs"
                         /\ UNCHANGED <<error, response>>
                    ELSE /\ Fail(res.error)
                         /\ UNCHANGED <<tickets_summary, risks>>
       ELSE /\ calls' = Append(calls, Call("fetch_tickets", 0, "RequestException"))
            /\ Fail("RequestException")
            /\ UNCHANGED <<tickets, tickets_summary, risks>>
  /\ UNCHANGED <<entry, audit_logs, recent_done_tickets, recent_logs,
                 auditable_at, rendered>>

\* [log for log in logs if strptime(log["created_at"]) >= start_date]
RECURSIVE RecentOf(_, _)
RecentOf(logs, start) ==
  IF logs = <<>> THEN <<>>
  ELSE IF DatetimeGE(strptime(Head(logs).created_at), start)
       THEN <<Head(logs)>> \o RecentOf(Tail(logs), start)
       ELSE RecentOf(Tail(logs), start)

\* a handler that hands back what was collected before the failure
KeepCollected(collected) == collected

\* Lines 82-84: what fetch_audit_logs returns when a request failed, having
\* collected `collected` so far
OnRequestException(collected) == <<>>

\* Lines 189-192: fetch_audit_logs has returned logs; get_recent_done_tickets
\* and the engagement of the first ticket.
AfterFetchAuditLogs(logs) ==
  LET res == get_recent_done_tickets(logs, tickets) IN
    /\ audit_logs' = logs
    /\ tickets' = res.tickets
    /\ IF res.error # "none"
       THEN /\ Fail(res.error)
            /\ UNCHANGED recent_done_tickets
       ELSE /\ recent_done_tickets' = res.recent
            /\ IF tickets # <<>> /\ tickets[1].engagement = Absent
               THEN Fail("KeyError")
               ELSE /\ pc' = "render"
                    /\ UNCHANGED <<error, response>>

\* Lines 72-79: one request of the loop of fetch_audit_logs.
AuditRequest ==
  /\ InHandler
  /\ pc = "fetch_audit_logs"
  /\ auditable_at <= Len(tickets)
  /\ LET id == tickets[auditable_at].id IN
       \E ok \in BOOLEAN :
         IF ok
         THEN \E n \in 0..(MaxLogs - Len(recent_logs)) :
              \E rows \in [1..n -> PipelineLogs(id)] :
                /\ calls' = Append(calls, Call("audit_logs", id, "ok"))
                /\ IF \E k \in 1..n : ~Parses(rows[k].created_at)
                   THEN /\ Fail("ValueError")
                        /\ UNCHANGED <<recent_logs, auditable_at>>
                   ELSE /\ recent_logs' = recent_logs \o
                             RecentOf(rows, WindowStart(NowAtFetch, Days))
                        /\ auditable_at' = auditable_at + 1
                        /\ UNCHANGED <<pc, error, response>>
                /\ UNCHANGED <<tickets, audit_logs, recent_done_tickets>>
         ELSE /\ calls' = Append(calls, Call("audit_logs", id, "RequestException"))
              /\ AfterFetchAuditLogs(OnRequestException(recent_logs))
              /\ UNCHANGED <<recent_logs, auditable_at>>
  /\ UNCHANGED <<entry, tickets_summary, risks, rendered>>

\* Lines 80-81: the loop is over, fetch_audit_logs returns recent_logs.
AuditReturn ==
  /\ InHandler
  /\ pc = "fetch_audit_logs"
  /\ auditable_at > Len(tickets)
  /\ AfterFetchAuditLogs(recent_logs)
  /\ UNCHANGED <<entry, tickets_summary, risks, calls, recent_logs,
                 auditable_at, rendered>>

\* the ticket dicts a list of references leads to
Deref(tks, refs) == [k \in 1..Len(refs) |-> tks[refs[k]]]

\* Lines 197-200: load the template and render it.
Render ==
  /\ InHandler
  /\ pc = "render"
  /\ \E ok \in BOOLEAN :
       IF ok
       THEN /\ calls' = Append(calls, Call("render", 0, "ok"))
            /\ rendered' =
                 [done |-> TRUE,
                  tickets_summary |->
                    [s \in StatusKeySet |-> Deref(tickets, tickets_summary[s])],
                  risks |-> Deref(tickets, risks),
                  recent_done_tickets |-> Deref(tickets, recent_done_tickets),
                  engagement |->
                    IF tickets # <<>> THEN tickets[1].engagement ELSE "N/A"]
            /\ pc' = "send"
            /\ UNCHANGED <<error, response>>
       ELSE /\ calls' = Append(calls, Call("render", 0, "TemplateError"))
            /\ Fail("TemplateError")
            /\ UNCHANGED rendered
  /\ UNCHANGED <<entry, tickets, tickets_summary, risks, audit_logs,
                 recent_done_tickets, recent_logs, auditable_at>>

\* Lines 111-123: the exception that leaves send_email when the SMTP session
\* ended with `outcome`: an SMTPException is logged and swallowed.
SendEmailRaises(outcome) ==
  IF outcome \in {"ok", "SMTPException"} THEN "none" ELSE outcome

\* Lines 202-223: EmailNotifier, send_email, the response.
SendEmail ==
  /\ InHandler
  /\ pc = "send"
  /\ \E outcome \in {"ok", "SMTPException", "OSError"} :
       /\ calls' = Append(calls, Call("send_email", 0, outcome))
       /\ IF SendEmailRaises(outcome) = "none"
          THEN /\ pc' = "done"
               /\ response' = [statusCode |-> 200, body |-> "Email has been sent"]
               /\ UNCHANGED error
          ELSE Fail(SendEmailRaises(outcome))
  /\ UNCHANGED <<entry, tickets, tickets_summary, risks, audit_logs,
                 recent_done_tickets, recent_logs, auditable_at, rendered>>

Next ==
  \/ Configure
  \/ FetchTickets
  \/ AuditRequest
  \/ AuditReturn
  \/ Render
  \/ SendEmail

Spec == Init /\ [][Next]_vars

\* ------------------------------------------------------------ C1, C2, C3
Range(q) == {q[k] : k \in 1..Len(q)}
Occurrences(q, x) == Cardinality({k \in 1..Len(q) : q[k] = x})

RECURSIVE SumOver(_, _)
SumOver(S, f) ==
  IF S = {} THEN 0
  ELSE LET x == CHOOSE y \in S : TRUE IN f[x] + SumOver(S \ {x}, f)

InBuckets(r) ==
  SumOver(StatusKeySet, [s \in StatusKeySet |-> Occurrences(tickets_summary[s], r)])

Classified == entry = "categorize_tickets" /\ pc = "returned"

\* C1: every ticket whose type is "Risk" is in the returned risk list and in
\* none of the five status buckets, whatever its status.
C1_RiskOnlyInRisks ==
  Classified =>
    \A r \in 1..Len(tickets) :
      tickets[r].type = RISK =>
        /\ r \in Range(risks)
        /\ \A s \in StatusKeySet : r \notin Range(tickets_summary[s])

C1_Witness ==
  /\ Classified
  /\ \E r \in 1..Len(tickets) :
       /\ tickets[r].type = RISK
       /\ tickets[r].status \in StatusKeySet
       /\ r \in Range(risks)

\* C2: a Risk ticket occurs once, in the risk list; a non-Risk ticket with a
\* recognized status occurs once, in the bucket of its status; a non-Risk
\* ticket with any other status occurs nowhere; nothing else is in the output.
C2_ExactPartition ==
  Classified =>
    /\ \A r \in 1..Len(tickets) :
         LET t == tickets[r] IN
           /\ Occurrences(risks, r) = (IF t.type = RISK THEN 1 ELSE 0)
           /\ InBuckets(r) =
                (IF t.type # RISK /\ t.status \in StatusKeySet THEN 1 ELSE 0)
           /\ (t.type # RISK /\ t.status \in StatusKeySet)
                => r \in Range(tickets_summary[t.status])
    /\ Range(risks) \cup UNION {Range(tickets_summary[s]) : s \in StatusKeySet}
         = {r \in 1..Len(tickets) :
              tickets[r].type = RISK \/ tickets[r].status \in StatusKeySet}

C2_Witness ==
  /\ Classified
  /\ \E r, q \in 1..Len(tickets) :
       /\ tickets[r].type # RISK /\ tickets[r].status \notin StatusKeySet
       /\ tickets[q].type # RISK /\ tickets[q].status \in StatusKeySet
       /\ InBuckets(r) = 0 /\ InBuckets(q) = 1

\* C3: every bucket is ascending by start_date, a missing start_date counting
\* as the empty string, and tickets of a bucket with equal keys keep the
\* order they have in the input list.
C3_SortedStable ==
  Classified =>
    \A s \in StatusKeySet :
      LET b == tickets_summary[s] IN
        \A k \in 1..Len(b) : \A m \in (k + 1)..Len(b) :
          LET kk == StartDateKey(tickets[b[k]])
              km == StartDateKey(tickets[b[m]])
          IN /\ ~StrLess(km, kk)
             /\ kk = km => b[k] < b[m]

\* a bucket where a later ticket, without start_date, overtook an earlier one
C3_Witness ==
  /\ Classified
  /\ \E s \in StatusKeySet :
       LET b == tickets_summary[s] IN
         /\ Len(b) >= 2
         /\ b[1] > b[2]
         /\ tickets[b[1]].start_date = {}

\* ------------------------------------------------------------ C4, C5, C8
Reconciled == entry = "get_recent_done_tickets" /\ pc = "returned"

Known(id) == \E r \in 1..Len(tickets) : tickets[r].id = id

\* an update whose status delta has the new value "DONE", of a known ticket
Qualifying(j) ==
  /\ audit_logs[j].action = "update"
  /\ <<"status", DONE>> \in audit_logs[j].changes
  /\ Known(audit_logs[j].auditable_id)

QualifyingSet == {j \in 1..Len(audit_logs) : Qualifying(j)}

\* the k-th member of the set J of positions, in ascending order
Nth(J, k) == CHOOSE j \in J : Cardinality({m \in J : m < j}) = k - 1

\* recent_done_tickets is the tickets of the entries J, one per entry, in
\* audit-log order
ListsEntries(J) ==
  /\ Len(recent_done_tickets) = Cardinality(J)
  /\ \A k \in 1..Cardinality(J) :
       /\ recent_done_tickets[k] \in 1..Len(tickets)
       /\ tickets[recent_done_tickets[k]].id = audit_logs[Nth(J, k)].auditable_id

\* C4: the returned list holds one ticket per entry that is an update to DONE
\* of a known ticket, and nothing else, in audit-log order; an entry of an
\* unknown ticket contributes nothing and raises nothing (only an entry of a
\* known ticket can raise).
C4_ContributesIff ==
  entry = "get_recent_done_tickets" =>
    /\ pc = "returned" => ListsEntries(QualifyingSet)
    /\ pc = "raised" => \E j \in QualifyingSet : ~Parses(audit_logs[j].created_at)

C4_Witness ==
  /\ Reconciled
  /\ Len(recent_done_tickets) = 1
  /\ \E j, m \in 1..Len(audit_logs) :
       /\ Qualifying(j)
       /\ ~Known(audit_logs[m].auditable_id)
       /\ <<"status", DONE>> \in audit_logs[m].changes
       /\ audit_logs[m].action = "update"

WellFormedQualifying == {j \in QualifyingSet : Parses(audit_logs[j].created_at)}

\* C5: a qualifying entry whose created_at does not parse is skipped: no error
\* reaches the caller and the returned list holds the ticket of every
\* qualifying entry with a well-formed created_at.
C5_SkipsMalformed ==
  (entry = "get_recent_done_tickets" /\ pc # "call") =>
    /\ error = "none"
    /\ ListsEntries(WellFormedQualifying)

\* C8: a ticket referenced by k qualifying entries is k times in the returned
\* list, at the places of those entries, and its completion_date is the
\* formatted created_at of the last of them.
C8_NoDedupLastWins ==
  Reconciled =>
    /\ ListsEntries(QualifyingSet)
    /\ \A r \in 1..Len(tickets) :
         LET J == {j \in QualifyingSet : audit_logs[j].auditable_id = tickets[r].id}
         IN /\ Occurrences(recent_done_tickets, r) = Cardinality(J)
            /\ IF J = {} THEN tickets[r].completion_date = {}
               ELSE LET last == audit_logs[Nth(J, Cardinality(J))].created_at IN
                 tickets[r].completion_date =
                   {[date |-> last.date, sep |-> " ", time |-> last.time,
                     frac |-> <<>>]}

C8_Witness ==
  /\ Reconciled
  /\ \E r \in 1..Len(tickets) :
       /\ Occurrences(recent_done_tickets, r) = 2
       /\ \E j, m \in QualifyingSet :
            /\ j < m
            /\ audit_logs[j].auditable_id = tickets[r].id
            /\ audit_logs[m].auditable_id = tickets[r].id
            /\ audit_logs[j].created_at = T2
            /\ audit_logs[m].created_at = T1
            /\ tickets[r].completion_date = {strftime(strptime(T1))}

\* ------------------------------------------------------- C6, C7, C9, C10
HandlerDone == InHandler /\ pc = "done"

CallsOf(name) == {k \in 1..Len(calls) : calls[k].call = name}

AuditRequestFailed ==
  \E k \in CallsOf("audit_logs") : calls[k].outcome = "RequestException"

\* C6: 200 "Email has been sent" only when every step succeeded, 500 on a
\* failure of any step but the audit-log fetch, the SMTP session included.
C6_200OnlyOnSuccess ==
  HandlerDone =>
    /\ response.statusCode \in {200, 500}
    /\ response.statusCode = 200 =>
         /\ response.body = "Email has been sent"
         /\ \A k \in 1..Len(calls) :
              calls[k].call # "audit_logs" => calls[k].outcome = "ok"
    /\ (\/ error # "none"
        \/ \E k \in 1..Len(calls) :
             calls[k].call # "audit_logs" /\ calls[k].outcome # "ok")
         => response.statusCode = 500

\* C7: a failed audit-log request is caught in fetch_audit_logs, which returns
\* the empty list: nothing is reconciled, the run goes on to render with an
\* empty recently-done list and to send, and ends with 200 unless a later
\* step fails on its own.
C7_AuditFailureDegrades ==
  (InHandler /\ AuditRequestFailed) =>
    /\ audit_logs = <<>>
    /\ recent_done_tickets = <<>>
    /\ error # "RequestException"
    /\ pc \in {"render", "send", "done"}
    /\ rendered.done => rendered.recent_done_tickets = <<>>
    /\ pc = "done" =>
         \/ /\ response.statusCode = 200
            /\ rendered.done
            /\ calls[Len(calls)].call = "send_email"
         \/ /\ response.statusCode = 500
            /\ error \in {"KeyError", "TemplateError", "OSError"}

\* the second request failed after the first had returned a recent entry
C7_Witness ==
  /\ HandlerDone
  /\ Len(tickets) = 2
  /\ recent_logs # <<>>
  /\ calls[3] = Call("audit_logs", tickets[2].id, "RequestException")
  /\ calls[Len(calls)] = Call("send_email", 0, "ok")
  /\ response = [statusCode |-> 200, body |-> "Email has been sent"]

\* the ids of the audit-log requests, in the order they were issued
AuditedIds ==
  [k \in 1..Cardinality(CallsOf("audit_logs")) |->
     calls[Nth(CallsOf("audit_logs"), k)].id]

TicketIds == [r \in 1..Len(tickets) |-> tickets[r].id]

IsPrefix(a, b) == Len(a) <= Len(b) /\ a = SubSeq(b, 1, Len(a))

\* the order of the calls, one of each at most, nothing after a call whose
\* failure propagates
CallPattern ==
  /\ CallsOf("fetch_tickets") = (IF calls = <<>> THEN {} ELSE {1})
  /\ CallsOf("audit_logs") = 2..(1 + Cardinality(CallsOf("audit_logs")))
  /\ Cardinality(CallsOf("render")) <= 1
  /\ Cardinality(CallsOf("send_email")) <= 1
  /\ \A k \in CallsOf("render") : \A m \in CallsOf("audit_logs") : m < k
  /\ \A k \in CallsOf("send_email") : k - 1 \in CallsOf("render")
  /\ \A k \in 1..(Len(calls) - 1) :
       \/ calls[k].outcome = "ok"
       \/ calls[k].call = "audit_logs" /\ calls[k].outcome = "RequestException"
  /\ error # "none" => pc = "done"

\* C9 as stated: the pattern, with one audit-log request per fetched ticket
\* id, in ticket-list order, in every invocation that goes on to render.
C9_OneRequestPerTicket ==
  InHandler =>
    /\ CallPattern
    /\ IsPrefix(AuditedIds, TicketIds)
    /\ CallsOf("render") # {} => AuditedIds = TicketIds

\* C9, amended: the audit-log requests are issued for the ticket ids in
\* ticket-list order up to and including the first request that fails; no
\* request follows a failed one; they cover every ticket id when none failed.
C9_CallOrder ==
  InHandler =>
    /\ CallPattern
    /\ IsPrefix(AuditedIds, TicketIds)
    /\ \A k \in CallsOf("audit_logs") :
         calls[k].outcome = "RequestException" => k + 1 \notin CallsOf("audit_logs")
    /\ (CallsOf("render") # {} /\ ~AuditRequestFailed) => AuditedIds = TicketIds

C9_Witness ==
  /\ HandlerDone
  /\ Len(tickets) = 2
  /\ Len(calls) = 4
  /\ calls[2] = Call("audit_logs", tickets[1].id, "RequestException")
  /\ calls[3].call = "render"
  /\ calls[4] = Call("send_email", 0, "ok")

\* the audit-log entries of ticket id that annotate it
AnnotatingEntries(id) ==
  {j \in 1..Len(audit_logs) :
     /\ audit_logs[j].auditable_id = id
     /\ audit_logs[j].action = "update"
     /\ <<"status", DONE>> \in audit_logs[j].changes}

RenderedBuckets ==
  UNION {Range(rendered.tickets_summary[s]) : s \in StatusKeySet}
    \cup Range(rendered.risks)

\* C10: what the renderer reads in the buckets and the risk list carries the
\* reconciler's annotation: a ticket of the recently-done list has, wherever
\* it sits, the completion_date it has in that list (the formatted created_at
\* of its last qualifying entry); a ticket no qualifying entry matched has none.
C10_AnnotationVisibleAtRender ==
  (InHandler /\ rendered.done) =>
    /\ \A x \in Range(rendered.recent_done_tickets) :
         LET J == AnnotatingEntries(x.id)
             last == audit_logs[Nth(J, Cardinality(J))].created_at
         IN /\ J # {}
            /\ x.completion_date =
                 {[date |-> last.date, sep |-> " ", time |-> last.time,
                   frac |-> <<>>]}
    /\ \A y \in RenderedBuckets :
         /\ \A x \in Range(rendered.recent_done_tickets) :
              x.id = y.id => y.completion_date = x.completion_date
         /\ AnnotatingEntries(y.id) = {} => y.completion_date = {}
    /\ \A r \in 1..Len(tickets) :
         AnnotatingEntries(tickets[r].id) = {} => tickets[r].completion_date = {}

\* a ticket of the "done" bucket and a Risk ticket, both recently done
C10_Witness ==
  /\ InHandler
  /\ rendered.done
  /\ \E y \in Range(rendered.tickets_summary["done"]) :
       /\ y.completion_date # {}
       /\ y \in Range(rendered.recent_done_tickets)
  /\ \E y \in Range(rendered.risks) :
       /\ y.completion_date # {}
       /\ y \in Range(rendered.recent_done_tickets)

====
